---- MODULE Spec2Model ----
(***************************************************************************)
(* Model of autopr/validators.py: the unidiff repair pipeline.             *)
(*                                                                         *)
(*   Unidiff.fix  =  ten normalizer rewrites over the line list,           *)
(*                   remove_hallucinations(lines, tree),                   *)
(*                   fix_unidiff_line_counts(lines),                       *)
(*                   validate (git apply --check) and the fallback.        *)
(*                                                                         *)
(* A line is a sequence of one-character strings, so that startswith,      *)
(* lstrip, replace, slicing, the regular expressions, int() and the        *)
(* f-string formatting of numbers are computed character by character.     *)
(* A text is kept as the list text.split("\n") yields (a text ending in a  *)
(* newline is a list ending in the empty line).  Python exceptions are the *)
(* err field of an operator's result and the "raised" position of fix.     *)
(***************************************************************************)
EXTENDS Integers, Sequences, FiniteSets, TLC

\* ------------------------------------------------------------------------
\* Python string operations on sequences of characters
\* ------------------------------------------------------------------------

Digits == <<"0", "1", "2", "3", "4", "5", "6", "7", "8", "9">>

Whitespace == {" ", "\t"}

StartsWith(s, p) == Len(s) >= Len(p) /\ SubSeq(s, 1, Len(p)) = p

EndsWith(s, p) == Len(s) >= Len(p) /\ SubSeq(s, Len(s) - Len(p) + 1, Len(s)) = p

\* s[p-1:].startswith(lit) for a position p counted from 1
HasAt(s, p, lit) ==
    p + Len(lit) - 1 <= Len(s) /\ SubSeq(s, p, p + Len(lit) - 1) = lit

\* s[n:] for n >= 0
DropChars(s, n) == SubSeq(s, n + 1, Len(s))

RECURSIVE LStrip(_)
LStrip(s) ==
    IF s # <<>> /\ Head(s) \in Whitespace THEN LStrip(Tail(s)) ELSE s

\* str.replace(old, new): every non-overlapping occurrence, left to right
RECURSIVE Replace(_, _, _)
Replace(s, old, new) ==
    IF s = <<>> THEN <<>>
    ELSE IF StartsWith(s, old) THEN new \o Replace(DropChars(s, Len(old)), old, new)
    ELSE <<Head(s)>> \o Replace(Tail(s), old, new)

IsDigit(c) == \E k \in 1..10 : Digits[k] = c

DigitVal(c) == (CHOOSE k \in 1..10 : Digits[k] = c) - 1

\* int(s) for a run of decimal digits
RECURSIVE ParseInt(_)
ParseInt(ds) ==
    IF ds = <<>> THEN 0
    ELSE 10 * ParseInt(SubSeq(ds, 1, Len(ds) - 1)) + DigitVal(ds[Len(ds)])

RECURSIVE FormatNat(_)
FormatNat(n) ==
    IF n < 10 THEN <<Digits[n + 1]>>
    ELSE FormatNat(n \div 10) \o <<Digits[(n % 10) + 1]>>

\* f"{n}" for an int
FormatInt(n) == IF n < 0 THEN <<"-">> \o FormatNat(-n) ELSE FormatNat(n)

\* the first position >= p of s that holds no digit
RECURSIVE DigitRunEnd(_, _)
DigitRunEnd(s, p) ==
    IF p <= Len(s) /\ IsDigit(s[p]) THEN DigitRunEnd(s, p + 1) ELSE p

\* the position after an optional (?:,\d+) starting at p
SkipCount(s, p) ==
    IF p <= Len(s) /\ s[p] = "," /\ DigitRunEnd(s, p + 1) > p + 1
    THEN DigitRunEnd(s, p + 1)
    ELSE p

\* list[k] with Python's negative indices; defined when InRange(l, k)
InRange(l, k) == -Len(l) <= k /\ k < Len(l)

PyGet(l, k) == IF k >= 0 THEN l[k + 1] ELSE l[Len(l) + k + 1]

\* list.insert(k, x) for 0 <= k
Insert(l, k, x) ==
    IF k >= Len(l) THEN Append(l, x)
    ELSE SubSeq(l, 1, k) \o <<x>> \o SubSeq(l, k + 1, Len(l))

\* ------------------------------------------------------------------------
\* The literals of the source
\* ------------------------------------------------------------------------

Minus3 == <<"-", "-", "-">>
Plus3 == <<"+", "+", "+">>
Plus3Sp == <<"+", "+", "+", " ">>
Minus3Sp == <<"-", "-", "-", " ">>
AtAt == <<"@", "@">>
AtAtSp == <<"@", "@", " ">>
DiffGit == <<"d", "i", "f", "f", " ", "-", "-", "g", "i", "t">>
MinusA == <<"-", "-", "-", " ", "a", "/">>
PlusB == <<"+", "+", "+", " ", "b", "/">>
DevNull == <<"/", "d", "e", "v", "/", "n", "u", "l", "l">>
OldDevNull == Minus3Sp \o DevNull
Empty == <<>>
Space == <<" ">>

\* re.match(r"@@ -(\d+)(?:,\d+)? \+(\d+)(?:,\d+)? @@", line)
MatchHunk(line) ==
    LET p1 == 5
        e1 == DigitRunEnd(line, p1)
        c1 == SkipCount(line, e1)
        p2 == c1 + 2
        e2 == DigitRunEnd(line, p2)
        c2 == SkipCount(line, e2)
        ok == /\ StartsWith(line, <<"@", "@", " ", "-">>)
              /\ e1 > p1
              /\ HasAt(line, c1, <<" ", "+">>)
              /\ e2 > p2
              /\ HasAt(line, c2, <<" ", "@", "@">>)
    IN  IF ok
        THEN [ok |-> TRUE, x |-> ParseInt(SubSeq(line, p1, e1 - 1)),
              y |-> ParseInt(SubSeq(line, p2, e2 - 1))]
        ELSE [ok |-> FALSE, x |-> 0, y |-> 0]

\* re.match(r"--- (.+)", line) and re.match(r"\+\+\+ (.+)", line): the
\* match succeeds when the four-character prefix is followed by a character
MatchPath(prefix, line) == StartsWith(line, prefix) /\ Len(line) > Len(prefix)

PathOf(line) == DropChars(line, 4)

HunkLine(x, xc, y, yc) ==
    <<"@", "@", " ", "-">> \o FormatInt(x) \o <<",">> \o FormatInt(xc)
        \o <<" ", "+">> \o FormatInt(y) \o <<",">> \o FormatInt(yc)
        \o <<" ", "@", "@">>

\* ------------------------------------------------------------------------
\* The tree and the repository
\* ------------------------------------------------------------------------

\* repo.remotes.origin.url.split('.git')[0].split('/')[-1]
RepoName == <<"r">>

FileF == << <<"a">>, <<" ", "b">>, <<"c">>, <<"d">>, <<"e">> >>
FileG == << <<"a">>, <<"c">> >>
FileH == << <<"c">>, <<"d">>, <<"c">> >>

\* tree.traverse(): the entries of the tree in traversal order
TreeEntries ==
    << [path |-> <<"f">>, type |-> "blob", data |-> FileF],
       [path |-> <<"r">>, type |-> "tree", data |-> <<>>],
       [path |-> <<"r", "/", "r">>, type |-> "tree", data |-> <<>>],
       [path |-> <<"r", "/", "r", "/", "g">>, type |-> "blob", data |-> FileG],
       [path |-> <<"h">>, type |-> "blob", data |-> FileH] >>

\* tree / path succeeds (no KeyError)
InTree(path) == \E k \in 1..Len(TreeEntries) : TreeEntries[k].path = path

\* (tree / path).data_stream.read().decode().splitlines()
BlobLines(path) ==
    TreeEntries[CHOOSE k \in 1..Len(TreeEntries) : TreeEntries[k].path = path].data

\* SuffixMatch that finds no entry
SuffixMatchNone(filename) == 0

\* the first traversed entry whose path ends with filename, 0 when none
SuffixMatch(filename) ==
    LET hits == {k \in 1..Len(TreeEntries) : EndsWith(TreeEntries[k].path, filename)}
    IN  IF hits = {} THEN 0 ELSE CHOOSE k \in hits : \A j \in hits : k <= j

\* ------------------------------------------------------------------------
\* Results of a pass: the lines, and the exception raised if any
\* ------------------------------------------------------------------------

Ok(l) == [lines |-> l, err |-> "none"]
Raise(l, e) == [lines |-> l, err |-> e]

\* line i starts a file-header triple: first /\ lines[i+1].startswith(plus)
\* /\ lines[i+2].startswith("@@"), evaluated left to right; Python raises
\* IndexError when an index that is reached is out of range
TripleTest(first, lines, i, plus) ==
    IF ~first THEN "no"
    ELSE IF ~InRange(lines, i + 1) THEN "IndexError"
    ELSE IF ~StartsWith(PyGet(lines, i + 1), plus) THEN "no"
    ELSE IF ~InRange(lines, i + 2) THEN "IndexError"
    ELSE IF StartsWith(PyGet(lines, i + 2), AtAt) THEN "yes" ELSE "no"

\* ------------------------------------------------------------------------
\* Unidiff.fix, the normalizer rewrites (validators.py 192-295)
\* ------------------------------------------------------------------------

\* value.splitlines() of a text kept as text.split("\n")
SplitLines(text) ==
    IF text # <<>> /\ text[Len(text)] = Empty
    THEN SubSeq(text, 1, Len(text) - 1)
    ELSE text

\* "\n".join(lines), as the list "\n".join(lines).split("\n")
JoinLines(lines) == IF lines = <<>> THEN <<Empty>> ELSE lines

\* Drop any `diff --git` lines
Rule1(lines) == Ok(SelectSeq(lines, LAMBDA line : ~StartsWith(line, DiffGit)))

\* Remove whitespace in front of --- lines
RECURSIVE Rule2Loop(_, _)
Rule2Loop(lines, i) ==
    IF i >= Len(lines) THEN Ok(lines)
    ELSE LET stripped == LStrip(lines[i + 1])
             t == TripleTest(StartsWith(stripped, Minus3), lines, i, Plus3)
         IN  IF t = "IndexError" THEN Raise(lines, "IndexError")
             ELSE IF t = "yes"
             THEN Rule2Loop([lines EXCEPT ![i + 1] = stripped], i + 1)
             ELSE Rule2Loop(lines, i + 1)

Rule2(lines) == Rule2Loop(lines, 0)

\* Rename any hunks that start with --- a/ or +++ b/
RECURSIVE Rule3Loop(_, _)
Rule3Loop(lines, i) ==
    IF i >= Len(lines) \/ Len(lines) < i + 2 THEN Ok(lines)
    ELSE IF StartsWith(lines[i + 1], MinusA) /\ StartsWith(lines[i + 2], PlusB)
    THEN Rule3Loop([lines EXCEPT ![i + 1] = Replace(lines[i + 1], MinusA, Minus3Sp),
                                 ![i + 2] = Replace(lines[i + 2], PlusB, Plus3Sp)],
                   i + 1)
    ELSE Rule3Loop(lines, i + 1)

Rule3(lines) == Rule3Loop(lines, 0)

\* Add space at the start of any line that's empty, except if it precedes
\* a --- line, or is the last line
RECURSIVE Rule4Loop(_, _)
Rule4Loop(lines, i) ==
    IF i >= Len(lines) \/ Len(lines) < i + 2 THEN Ok(lines)
    ELSE IF /\ lines[i + 1] = Empty
            /\ ~StartsWith(lines[i + 2], Minus3)
            /\ i # Len(lines) - 1
    THEN Rule4Loop([lines EXCEPT ![i + 1] = Space], i + 1)
    ELSE Rule4Loop(lines, i + 1)

\* Rule4 that pads no empty line
Rule4PadsNothing(lines) == Ok(lines)

Rule4(lines) == Rule4Loop(lines, 0)

\* Ensure the whole thing ends with a newline
Rule5(lines) ==
    IF ~InRange(lines, -1) THEN Raise(lines, "IndexError")
    ELSE IF PyGet(lines, -1) = Empty THEN Ok(lines)
    ELSE Ok(Append(lines, Empty))

\* If there are any +++ @@ lines, without a preceding --- line, add a
\* `--- /dev/null` line before it: the indices collected by the first loop
RECURSIVE Rule6Scan(_, _, _)
Rule6Scan(lines, i, found) ==
    IF i >= Len(lines) THEN [idx |-> found, err |-> "none"]
    ELSE IF ~StartsWith(lines[i + 1], Plus3Sp) THEN Rule6Scan(lines, i + 1, found)
    ELSE IF ~InRange(lines, i + 1) THEN [idx |-> found, err |-> "IndexError"]
    ELSE IF ~StartsWith(PyGet(lines, i + 1), AtAtSp) THEN Rule6Scan(lines, i + 1, found)
    ELSE IF StartsWith(PyGet(lines, i - 1), Minus3) THEN Rule6Scan(lines, i + 1, found)
    ELSE Rule6Scan(lines, i + 1, Append(found, i))

RECURSIVE Rule6Insert(_, _, _)
Rule6Insert(lines, idx, k) ==
    IF k > Len(idx) THEN lines
    ELSE Rule6Insert(Insert(lines, idx[k] + (k - 1), OldDevNull), idx, k + 1)

Rule6(lines) ==
    LET s == Rule6Scan(lines, 0, <<>>)
    IN  IF s.err # "none" THEN Raise(lines, s.err)
        ELSE Ok(Rule6Insert(lines, s.idx, 1))

\* Fix filenames, such that in every block of three consecutive --- +++ @@
\* lines, the filename after +++ matches the filename after ---
RECURSIVE Rule7Loop(_, _)
Rule7Loop(lines, i) ==
    IF i >= Len(lines) THEN Ok(lines)
    ELSE LET line == lines[i + 1]
         IN  IF StartsWith(line, Minus3) /\ ~StartsWith(line, OldDevNull)
             THEN IF ~MatchPath(Minus3Sp, line) THEN Raise(lines, "AttributeError")
                  ELSE IF /\ i + 1 < Len(lines)
                          /\ StartsWith(lines[i + 2], Plus3)
                          /\ i + 2 < Len(lines)
                          /\ StartsWith(lines[i + 3], AtAt)
                  THEN Rule7Loop([lines EXCEPT ![i + 2] = Plus3Sp \o PathOf(line)], i + 1)
                  ELSE Rule7Loop(lines, i + 1)
             ELSE Rule7Loop(lines, i + 1)

\* Rule7 that leaves every new path line as the diff had it
Rule7KeepsNames(lines) == Ok(lines)

Rule7(lines) == Rule7Loop(lines, 0)

\* If the file referenced on --- and +++ lines is not in the repo, replace
\* it with /dev/null (or with the tree path that ends with it)
RECURSIVE Rule8Loop(_, _)
Rule8Loop(lines, i) ==
    IF i >= Len(lines) THEN Ok(lines)
    ELSE LET t == TripleTest(StartsWith(lines[i + 1], Minus3), lines, i, Plus3)
         IN  IF t = "IndexError" THEN Raise(lines, "IndexError")
             ELSE IF t = "no" THEN Rule8Loop(lines, i + 1)
             ELSE IF ~MatchPath(Plus3Sp, PyGet(lines, i + 1))
             THEN Raise(lines, "AttributeError")
             ELSE LET filename == PathOf(PyGet(lines, i + 1))
                      m == SuffixMatch(filename)
                  IN  IF InTree(filename) THEN Rule8Loop(lines, i + 1)
                      ELSE IF m # 0
                      THEN Rule8Loop(
                               [lines EXCEPT ![i + 1] = Minus3Sp \o TreeEntries[m].path,
                                             ![i + 2] = Plus3Sp \o TreeEntries[m].path],
                               i + 1)
                      ELSE Rule8Loop([lines EXCEPT ![i + 1] = OldDevNull], i + 1)

Rule8(lines) == Rule8Loop(lines, 0)

\* If there is a lone @@ line, prefix it with the --- and +++ lines from the
\* previous block: the (index, current_block) pairs the first loop collects
RECURSIVE Rule9Scan(_, _, _, _)
Rule9Scan(lines, i, block, found) ==
    IF i >= Len(lines) THEN [ins |-> found, err |-> "none"]
    ELSE LET line == lines[i + 1]
             t == TripleTest(StartsWith(line, Minus3), lines, i, Plus3Sp)
             blk == IF t = "yes" THEN <<line, PyGet(lines, i + 1)>> ELSE block
         IN  IF t = "IndexError" THEN [ins |-> found, err |-> "IndexError"]
             ELSE IF StartsWith(line, AtAt) /\ ~StartsWith(PyGet(lines, i - 1), Plus3Sp)
             THEN Rule9Scan(lines, i + 1, blk,
                            Append(found, [index |-> i, newlines |-> blk]))
             ELSE Rule9Scan(lines, i + 1, blk, found)

\* Rule9Insert that puts every pair at the index its hunk header had
RECURSIVE Rule9InsertUnshifted(_, _, _)
Rule9InsertUnshifted(lines, ins, k) ==
    IF k > Len(ins) THEN Ok(lines)
    ELSE LET actual_index == ins[k].index
             newlines == ins[k].newlines
         IN  IF ~InRange(newlines, 0) THEN Raise(lines, "IndexError")
             ELSE Rule9InsertUnshifted(
                      Insert(Insert(lines, actual_index, newlines[1]),
                             actual_index + 1, newlines[2]),
                      ins, k + 1)

RECURSIVE Rule9Insert(_, _, _)
Rule9Insert(lines, ins, k) ==
    IF k > Len(ins) THEN Ok(lines)
    ELSE LET actual_index == ins[k].index + (k - 1) * 2
             newlines == ins[k].newlines
         IN  IF ~InRange(newlines, 0) THEN Raise(lines, "IndexError")
             ELSE Rule9Insert(
                      Insert(Insert(lines, actual_index, newlines[1]),
                             actual_index + 1, newlines[2]),
                      ins, k + 1)

Rule9(lines) ==
    LET s == Rule9Scan(lines, 0, <<>>, <<>>)
    IN  IF s.err # "none" THEN Raise(lines, s.err)
        ELSE Rule9Insert(lines, s.ins, 1)

\* Fix filepaths, such that if it starts with a directory with the same name
\* as the repo, the path is prepended with that name again
RECURSIVE Rule10Loop(_, _)
Rule10Loop(lines, i) ==
    IF i >= Len(lines) THEN Ok(lines)
    ELSE LET t == TripleTest(StartsWith(lines[i + 1], Minus3), lines, i, Plus3)
             once == RepoName \o <<"/">>
             twice == RepoName \o <<"/">> \o RepoName \o <<"/">>
         IN  IF t = "IndexError" THEN Raise(lines, "IndexError")
             ELSE IF t = "yes" /\ StartsWith(PyGet(lines, i + 1), Plus3Sp \o once)
             THEN Rule10Loop(
                      [lines EXCEPT
                          ![i + 1] = Replace(lines[i + 1], Minus3Sp \o once, Minus3Sp \o twice),
                          ![i + 2] = Replace(lines[i + 2], Plus3Sp \o once, Plus3Sp \o twice)],
                      i + 1)
             ELSE Rule10Loop(lines, i + 1)

Rule10(lines) == IF InTree(RepoName) THEN Rule10Loop(lines, 0) ELSE Ok(lines)

\* the k-th rewrite of Unidiff.fix
Rule(k, lines) ==
    CASE k = 1 -> Rule1(lines)
      [] k = 2 -> Rule2(lines)
      [] k = 3 -> Rule3(lines)
      [] k = 4 -> Rule4(lines)
      [] k = 5 -> Rule5(lines)
      [] k = 6 -> Rule6(lines)
      [] k = 7 -> Rule7(lines)
      [] k = 8 -> Rule8(lines)
      [] k = 9 -> Rule9(lines)
      [] OTHER -> Rule10(lines)

\* rewrites k..10 in order; an exception ends the sequence
RECURSIVE NormalizeFrom(_, _)
NormalizeFrom(r, k) ==
    IF r.err # "none" \/ k > 10 THEN r
    ELSE NormalizeFrom(Rule(k, r.lines), k + 1)

\* the ten rewrites in the order of Unidiff.fix
Normalize(lines) == NormalizeFrom(Ok(lines), 1)

\* ------------------------------------------------------------------------
\* remove_hallucinations (validators.py 57-154)
\* ------------------------------------------------------------------------

search_range == 3

Max(a, b) == IF a >= b THEN a ELSE b

RECURSIVE Spaces(_)
Spaces(n) == IF n <= 0 THEN <<>> ELSE <<" ">> \o Spaces(n - 1)

Indentation(s) == Len(s) - Len(LStrip(s))

adjust_line_indentation(line, indentation_offset) ==
    IF indentation_offset >= 0
    THEN Spaces(indentation_offset) \o line
    ELSE DropChars(line, -indentation_offset)

\* The locals of remove_hallucinations before the first line.  An Optional
\* is a sequence of length 0 (None) or 1; branch names what the last step did.
RHInit ==
    [cleaned_lines |-> <<>>, current_file_content |-> <<>>,
     current_line_number |-> 0, first_line_semaphore |-> 0,
     indentation_offset |-> 0, is_new_file |-> FALSE,
     branch |-> "start", err |-> "none"]

Emit(st, line, what) ==
    [st EXCEPT !.cleaned_lines = Append(@, line), !.branch = what]

Skip(st, what) == [st EXCEPT !.branch = what]

Fail(st, e) == [st EXCEPT !.err = e, !.branch = "raise"]

\* lines 75-91: the old-path line of a file-header triple
HeaderStep(st, line) ==
    IF ~MatchPath(Minus3Sp, line) THEN Fail(st, "AttributeError")
    ELSE LET filepath == PathOf(line)
         IN  IF InTree(filepath)
             THEN Emit([st EXCEPT !.is_new_file = FALSE,
                                  !.current_file_content = <<BlobLines(filepath)>>],
                       line, "header")
             ELSE Emit([st EXCEPT !.is_new_file = TRUE,
                                  !.current_file_content = <<>>,
                                  !.current_line_number = 0],
                       line, "header")

\* HunkStep with a budget that lasts two lines longer
HunkStepBudgetFour(st, line) ==
    LET m == MatchHunk(line)
    IN  IF ~m.ok THEN Fail(st, "AttributeError")
        ELSE Emit([st EXCEPT !.current_line_number = m.x - 1,
                             !.indentation_offset = 0,
                             !.first_line_semaphore = 4],
                  line, "hunk")

\* HunkStep with a budget that lasts one line longer
HunkStepBudgetThree(st, line) ==
    LET m == MatchHunk(line)
    IN  IF ~m.ok THEN Fail(st, "AttributeError")
        ELSE Emit([st EXCEPT !.current_line_number = m.x - 1,
                             !.indentation_offset = 0,
                             !.first_line_semaphore = 3],
                  line, "hunk")

\* lines 92-96: a hunk header
HunkStep(st, line) ==
    LET m == MatchHunk(line)
    IN  IF ~m.ok THEN Fail(st, "AttributeError")
        ELSE Emit([st EXCEPT !.current_line_number = m.x - 1,
                             !.indentation_offset = 0,
                             !.first_line_semaphore = 2],
                  line, "hunk")

\* RemovedStep with the mismatch tested before the line is put into the diff
RemovedStepDropsMismatch(st, line) ==
    LET line_content == DropChars(line, 1)
        content == st.current_file_content[1]
        n == st.current_line_number
        file_line == PyGet(content, n)
        put == Emit([st EXCEPT !.current_line_number = n + 1],
                    <<"-">> \o file_line, "removed")
    IN  IF st.is_new_file THEN Skip(st, "removed_drop")
        ELSE IF st.current_file_content = <<>> THEN Fail(st, "TypeError")
        ELSE IF n >= Len(content) THEN Skip(st, "removed_drop")
        ELSE IF ~InRange(content, n) THEN Fail(st, "IndexError")
        ELSE IF LStrip(line_content) # LStrip(file_line)
        THEN Skip(st, "removed_drop")
        ELSE IF line_content # file_line
        THEN [put EXCEPT !.indentation_offset =
                             Indentation(file_line) - Indentation(line_content),
                         !.branch = "removed_reindent"]
        ELSE put

\* lines 99-118: a removed line
RemovedStep(st, line) ==
    LET line_content == DropChars(line, 1)
        content == st.current_file_content[1]
        n == st.current_line_number
        file_line == PyGet(content, n)
        put == Emit([st EXCEPT !.current_line_number = n + 1],
                    <<"-">> \o file_line, "removed")
    IN  IF st.is_new_file THEN Skip(st, "removed_drop")
        ELSE IF st.current_file_content = <<>> THEN Fail(st, "TypeError")
        ELSE IF n >= Len(content) THEN Skip(st, "removed_drop")
        ELSE IF ~InRange(content, n) THEN Fail(st, "IndexError")
        ELSE IF LStrip(line_content) # LStrip(file_line)
        THEN [put EXCEPT !.branch = "removed_replaced"]
        ELSE IF line_content # file_line
        THEN [put EXCEPT !.indentation_offset =
                             Indentation(file_line) - Indentation(line_content),
                         !.branch = "removed_reindent"]
        ELSE put

\* lines 119-120: an added line
AddedStep(st, line) ==
    Emit(st, <<"+">> \o adjust_line_indentation(DropChars(line, 1), st.indentation_offset),
         "added")

\* Search that leaves the hunk header as the diff had it
RECURSIVE SearchKeepsHeader(_, _, _)
SearchKeepsHeader(st, line, offset) ==
    IF offset > search_range THEN Skip(st, "search_miss")
    ELSE LET content == st.current_file_content[1]
             check_line_number == st.current_line_number + offset
             check_file_line == PyGet(content, check_line_number)
         IN  IF ~InRange(content, check_line_number) THEN Fail(st, "IndexError")
             ELSE IF ~(0 <= check_line_number /\ check_line_number < Len(content))
             THEN SearchKeepsHeader(st, line, offset + 1)
             ELSE IF LStrip(line) = LStrip(check_file_line)
             THEN IF st.cleaned_lines = <<>> THEN Fail(st, "IndexError")
                  ELSE Emit([st EXCEPT !.current_line_number = check_line_number + 1],
                            <<" ">> \o check_file_line, "search_hit")
             ELSE SearchKeepsHeader(st, line, offset + 1)

\* lines 135-145: the bounded local search, from offset on
RECURSIVE Search(_, _, _)
Search(st, line, offset) ==
    IF offset > search_range THEN Skip(st, "search_miss")
    ELSE LET content == st.current_file_content[1]
             check_line_number == st.current_line_number + offset
             check_file_line == PyGet(content, check_line_number)
             fixed == HunkLine(check_line_number + 1, 1, check_line_number + 1, 1)
         IN  IF ~InRange(content, check_line_number) THEN Fail(st, "IndexError")
             ELSE IF ~(0 <= check_line_number /\ check_line_number < Len(content))
             THEN Search(st, line, offset + 1)
             ELSE IF LStrip(line) = LStrip(check_file_line)
             THEN IF st.cleaned_lines = <<>> THEN Fail(st, "IndexError")
                  ELSE Emit([st EXCEPT
                                !.current_line_number = check_line_number + 1,
                                !.cleaned_lines = [@ EXCEPT ![Len(@)] = fixed]],
                            <<" ">> \o check_file_line, "search_hit")
             ELSE Search(st, line, offset + 1)

\* lines 121-145: a context line
ContextStep(st, line) ==
    LET content == st.current_file_content[1]
        n == st.current_line_number
        file_line == PyGet(content, n)
    IN  IF st.is_new_file THEN Skip(st, "context_drop")
        ELSE IF st.current_file_content = <<>> THEN Fail(st, "TypeError")
        ELSE IF n >= Len(content) THEN Skip(st, "context_drop")
        ELSE IF ~InRange(content, n) THEN Fail(st, "IndexError")
        ELSE IF LStrip(line) = LStrip(file_line)
        THEN IF st.indentation_offset # 0
             THEN Emit([st EXCEPT !.current_line_number = n + 1],
                       <<" ">> \o adjust_line_indentation(DropChars(line, 1),
                                                            st.indentation_offset),
                       "context")
             ELSE Emit([st EXCEPT !.current_line_number = n + 1],
                       <<" ">> \o file_line, "context")
        ELSE IF st.first_line_semaphore # 0 THEN Search(st, line, -search_range)
        ELSE Skip(st, "context_drop")

\* lines 146-150: any other line
OtherStep(st, line) ==
    Emit([st EXCEPT !.current_line_number = @ + 1], line, "other")

\* lines 73-150: one iteration of the loop, on lines[i] (i counted from 0)
RHLine(st, lines, i) ==
    LET line == lines[i + 1]
        s1 == [st EXCEPT !.first_line_semaphore = Max(0, @ - 1)]
        t == TripleTest(StartsWith(line, Minus3), lines, i, Plus3)
    IN  IF t = "IndexError" THEN Fail(s1, "IndexError")
        ELSE IF t = "yes" THEN HeaderStep(s1, line)
        ELSE IF StartsWith(line, AtAt) THEN HunkStep(s1, line)
        ELSE IF StartsWith(line, Plus3) THEN Emit(s1, line, "newpath")
        ELSE IF StartsWith(line, <<"-">>) THEN RemovedStep(s1, line)
        ELSE IF StartsWith(line, <<"+">>) THEN AddedStep(s1, line)
        ELSE IF LStrip(line) # line THEN ContextStep(s1, line)
        ELSE OtherStep(s1, line)

\* lines 152-154: force the final line to be empty
RHEnd(st) ==
    IF st.cleaned_lines = <<>> THEN Fail(st, "IndexError")
    ELSE IF st.cleaned_lines[Len(st.cleaned_lines)] # Empty
    THEN [st EXCEPT !.cleaned_lines = [@ EXCEPT ![Len(@)] = Empty], !.branch = "end"]
    ELSE Skip(st, "end")

\* the whole pass, as a function of the lines
RECURSIVE RHFrom(_, _, _)
RHFrom(st, lines, i) ==
    IF st.err # "none" THEN st
    ELSE IF i >= Len(lines) THEN RHEnd(st)
    ELSE RHFrom(RHLine(st, lines, i), lines, i + 1)

remove_hallucinations(lines) ==
    LET st == RHFrom(RHInit, lines, 0)
    IN  IF st.err # "none" THEN Raise(lines, st.err) ELSE Ok(st.cleaned_lines)

\* ------------------------------------------------------------------------
\* fix_unidiff_line_counts (validators.py 15-54)
\* ------------------------------------------------------------------------

\* lines 30-35: the next hunk is detected at j
NextHunkAt(lines, j) ==
    \/ /\ j + 2 < Len(lines)
       /\ StartsWith(lines[j + 1], Minus3)
       /\ StartsWith(lines[j + 2], Plus3)
       /\ StartsWith(lines[j + 3], AtAt)
    \/ StartsWith(lines[j + 1], AtAt)

\* lines 28-46: the tallies of the lines from j on
RECURSIVE CountFrom(_, _, _, _)
CountFrom(lines, j, x_count, y_count) ==
    IF j >= Len(lines) \/ NextHunkAt(lines, j) THEN [x |-> x_count, y |-> y_count]
    ELSE IF StartsWith(lines[j + 1], <<"-">>) THEN CountFrom(lines, j + 1, x_count + 1, y_count)
    ELSE IF StartsWith(lines[j + 1], <<"+">>) THEN CountFrom(lines, j + 1, x_count, y_count + 1)
    ELSE IF ~StartsWith(lines[j + 1], <<"\\">>)
    THEN CountFrom(lines, j + 1, x_count + 1, y_count + 1)
    ELSE CountFrom(lines, j + 1, x_count, y_count)

\* lines 48-49: the corrected header of the hunk at i
CorrectedLine(lines, i) ==
    LET m == MatchHunk(lines[i + 1])
        c == CountFrom(lines, i + 1, 0, 0)
    IN  HunkLine(m.x, c.x - 1, m.y, c.y - 1)

fix_unidiff_line_counts(lines) ==
    IF \E i \in 0..(Len(lines) - 1) :
           StartsWith(lines[i + 1], AtAt) /\ ~MatchHunk(lines[i + 1]).ok
    THEN Raise(lines, "AttributeError")
    ELSE Ok([k \in 1..Len(lines) |->
                IF StartsWith(lines[k], AtAt) THEN CorrectedLine(lines, k - 1)
                ELSE lines[k]])

\* ------------------------------------------------------------------------
\* The candidate diffs handed to Unidiff.fix (error.value)
\* ------------------------------------------------------------------------

MaxBody == 3
MaxJunk == 2

OldF == Minus3Sp \o <<"f">>
NewF == Plus3Sp \o <<"f">>
OldAF == MinusA \o <<"f">>
NewBF == PlusB \o <<"f">>
OldN == Minus3Sp \o <<"n">>
NewN == Plus3Sp \o <<"n">>
OldG == Minus3Sp \o <<"g">>
NewG == Plus3Sp \o <<"g">>
OldRG == Minus3Sp \o <<"r", "/", "g">>
NewRG == Plus3Sp \o <<"r", "/", "g">>
OldRRG == Minus3Sp \o <<"r", "/", "r", "/", "g">>
NewRRG == Plus3Sp \o <<"r", "/", "r", "/", "g">>
IndentedOldF == <<" ">> \o OldF
GitLine == DiffGit \o <<" ", "f">>
Hunk1 == HunkLine(1, 1, 1, 1)
Hunk2 == HunkLine(2, 1, 2, 1)
Hunk3 == HunkLine(3, 1, 3, 1)
Hunk5 == <<"@", "@", " ", "-", "5", " ", "+", "5", " ", "@", "@">>
HunkNew == HunkLine(0, 0, 1, 1)
HunkBad == <<"@", "@", " ", "x">>
CtxA == <<" ", "a">>
CtxB == <<" ", " ", "b">>
CtxC == <<" ", "c">>
CtxZ == <<" ", "z">>
DelA == <<"-", "a">>
DelB == <<"-", "b">>
DelZ == <<"-", "z">>
AddN == <<"+", "n">>
AddWide == <<"+", " ", "n">>
DelAWide == <<"-", " ", "a">>
NewRN == Plus3Sp \o <<"r", "/", "n">>
OldH == Minus3Sp \o <<"h">>
NewH == Plus3Sp \o <<"h">>
Junk == <<"x">>

\* all sequences over pool of length at most n
RECURSIVE SeqsUpTo(_, _)
SeqsUpTo(pool, n) ==
    IF n = 0 THEN {<<>>}
    ELSE LET shorter == SeqsUpTo(pool, n - 1)
         IN  shorter \cup {Append(q, x) : q \in {r \in shorter : Len(r) = n - 1}, x \in pool}

\* the two path lines that open a file section, well formed or not
Pairs ==
    { <<>>, <<OldF, NewF>>, <<OldAF, NewBF>>, <<IndentedOldF, NewN>>, <<NewN>>,
      <<OldN, NewF>>, <<OldG, NewG>>, <<OldRG, NewRG>>, <<OldRRG, NewRRG>>,
      <<GitLine, OldF, NewF>>, <<OldDevNull, NewN>>, <<Minus3, NewF>>, <<OldF, Plus3>> }

HunkHeaders == { <<>>, <<Hunk1>>, <<Hunk3>>, <<HunkNew>>, <<HunkBad>> }

BodyPool == { CtxA, CtxB, CtxC, CtxZ, DelA, DelB, DelZ, AddN }

\* one file section with any header and a short body, newline-terminated or not
HeaderTexts ==
    { p \o h \o b \o e : p \in Pairs, h \in HunkHeaders,
                         b \in {<<>>, <<CtxA>>, <<AddN>>, <<Empty>>, <<Empty, OldF>>},
                         e \in {<<>>, <<Empty>>, <<Empty, Empty>>} }

\* one hunk of the file f with every body up to MaxBody lines
BodyTexts ==
    { <<OldF, NewF>> \o h \o b \o <<Empty>> :
          h \in {<<Hunk1>>, <<Hunk2>>, <<Hunk3>>, <<Hunk5>>}, b \in SeqsUpTo(BodyPool, MaxBody) }

\* two hunks, the second with or without its own path lines
MultiTexts ==
    { <<OldF, NewF, Hunk1>> \o b1 \o p \o <<Hunk3>> \o b2 \o <<Empty>> :
          b1 \in {<<>>, <<CtxA>>, <<DelA, AddN>>, <<CtxZ>>},
          p \in {<<>>, <<OldF, NewF>>, <<OldRRG, NewRRG>>, <<Empty>>},
          b2 \in {<<>>, <<CtxC>>, <<AddN, CtxC>>, <<CtxC, CtxZ>>} }

\* one hunk of f whose removed lines are indented more or less than the file
\* lines, under a header that starts at line 0, 1 or 2
IndentPool == { DelAWide, DelB, AddN, AddWide, CtxB, CtxC }

IndentTexts ==
    { <<OldF, NewF>> \o h \o b \o <<Empty>> :
          h \in {<<HunkNew>>, <<Hunk1>>, <<Hunk2>>}, b \in SeqsUpTo(IndentPool, MaxBody) }

\* one hunk of the file h, which holds the same line twice
RepeatTexts ==
    { <<OldH, NewH>> \o h \o b \o <<Empty>> :
          h \in {<<Hunk1>>, <<Hunk2>>, <<Hunk3>>},
          b \in {<<CtxC>>, <<CtxC, CtxC>>, <<CtxZ>>, <<AddN, CtxC>>} }

\* three hunks, each with or without path lines of its own, the old path
\* line missing or not
OrphanTexts ==
    { p1 \o <<Hunk1>> \o b \o p2 \o <<Hunk2>> \o b \o p3 \o <<Hunk3>> \o <<Empty>> :
          p1 \in {<<NewN>>, <<OldF, NewF>>, <<NewRN>>},
          p2 \in {<<>>, <<NewN>>, <<OldF, NewF>>},
          p3 \in {<<>>, <<NewN>>, <<OldF, NewF>>},
          b \in {<<>>, <<AddN>>} }

\* short texts of arbitrary lines, the empty text among them
JunkPool == { Empty, Space, Junk, Minus3, OldF, NewF, Hunk1, HunkBad, CtxA, GitLine }

JunkTexts == SeqsUpTo(JunkPool, MaxJunk)

\* text.split("\n") is never the empty list: the empty text is one empty line
Texts ==
    { IF t = <<>> THEN <<Empty>> ELSE t :
          t \in HeaderTexts \cup BodyTexts \cup MultiTexts \cup IndentTexts
                   \cup RepeatTexts \cup OrphanTexts \cup JunkTexts }

\* ------------------------------------------------------------------------
\* Unidiff.fix as a state machine
\* ------------------------------------------------------------------------

VARIABLES
    value,                  \* error.value, as value.split("\n")
    lines,                  \* the local lines of fix
    pc,                     \* the statement of fix that runs next
    err,                    \* the exception that left fix, "none" if none
    passes,                 \* the passes and checks called so far, in order
    i,                      \* remove_hallucinations: index of the next line
    cleaned_lines,
    current_file_content,
    current_line_number,
    first_line_semaphore,
    indentation_offset,
    is_new_file,
    branch                  \* remove_hallucinations: what the last iteration did

rhvars == <<i, cleaned_lines, current_file_content, current_line_number,
            first_line_semaphore, indentation_offset, is_new_file, branch>>

vars == <<value, lines, pc, err, passes, i, cleaned_lines, current_file_content,
          current_line_number, first_line_semaphore, indentation_offset,
          is_new_file, branch>>

\* the locals of remove_hallucinations as one record, and back
RHState ==
    [cleaned_lines |-> cleaned_lines, current_file_content |-> current_file_content,
     current_line_number |-> current_line_number,
     first_line_semaphore |-> first_line_semaphore,
     indentation_offset |-> indentation_offset, is_new_file |-> is_new_file,
     branch |-> branch, err |-> "none"]

SetRH(st) ==
    /\ cleaned_lines' = st.cleaned_lines
    /\ current_file_content' = st.current_file_content
    /\ current_line_number' = st.current_line_number
    /\ first_line_semaphore' = st.first_line_semaphore
    /\ indentation_offset' = st.indentation_offset
    /\ is_new_file' = st.is_new_file
    /\ branch' = st.branch

Init ==
    /\ value \in Texts
    /\ lines = <<>>
    /\ pc = "fix"
    /\ err = "none"
    /\ passes = <<>>
    /\ i = 0
    /\ cleaned_lines = RHInit.cleaned_lines
    /\ current_file_content = RHInit.current_file_content
    /\ current_line_number = RHInit.current_line_number
    /\ first_line_semaphore = RHInit.first_line_semaphore
    /\ indentation_offset = RHInit.indentation_offset
    /\ is_new_file = RHInit.is_new_file
    /\ branch = RHInit.branch

\* line 191-192: value = error.value; lines = value.splitlines()
FixSplit ==
    /\ pc = "fix"
    /\ lines' = SplitLines(value)
    /\ pc' = "rule1"
    /\ passes' = Append(passes, "normalizer")
    /\ UNCHANGED <<value, err, rhvars>>

\* one rewrite of the normalizer: its result replaces lines, or its
\* exception leaves fix
Rewrite(from, to, r) ==
    /\ pc = from
    /\ IF r.err = "none"
       THEN lines' = r.lines /\ pc' = to /\ err' = err
       ELSE lines' = lines /\ pc' = "raised" /\ err' = r.err
    /\ UNCHANGED <<value, passes, rhvars>>

DropDiffGit == Rewrite("rule1", "rule2", Rule1(lines))
StripOldPath == Rewrite("rule2", "rule3", Rule2(lines))
RenameAB == Rewrite("rule3", "rule4", Rule3(lines))
PadEmptyLines == Rewrite("rule4", "rule5", Rule4(lines))
EnsureNewline == Rewrite("rule5", "rule6", Rule5(lines))
InsertDevNull == Rewrite("rule6", "rule7", Rule6(lines))
FixFilenames == Rewrite("rule7", "rule8", Rule7(lines))
FixMissingFiles == Rewrite("rule8", "rule9", Rule8(lines))
PrefixLoneHunks == Rewrite("rule9", "rule10", Rule9(lines))
FixRepoPaths == Rewrite("rule10", "remove_hallucinations", Rule10(lines))

\* line 298 and 65-71: the call of remove_hallucinations, its locals
RHCall ==
    /\ pc = "remove_hallucinations"
    /\ pc' = "rh_loop"
    /\ i' = 0
    /\ SetRH(RHInit)
    /\ passes' = Append(passes, "remove_hallucinations")
    /\ UNCHANGED <<value, lines, err>>

\* lines 73-150: one iteration of the loop
RHStep ==
    /\ pc = "rh_loop"
    /\ i < Len(lines)
    /\ LET st == RHLine(RHState, lines, i)
       IN  /\ SetRH(st)
           /\ IF st.err = "none"
              THEN i' = i + 1 /\ pc' = pc /\ err' = err
              ELSE i' = i /\ pc' = "raised" /\ err' = st.err
    /\ UNCHANGED <<value, lines, passes>>

\* lines 152-154 and 298: the pass returns cleaned_lines
RHReturn ==
    /\ pc = "rh_loop"
    /\ i >= Len(lines)
    /\ LET st == RHEnd(RHState)
       IN  /\ SetRH(st)
           /\ IF st.err = "none"
              THEN lines' = st.cleaned_lines /\ pc' = "fix_unidiff_line_counts" /\ err' = err
              ELSE lines' = lines /\ pc' = "raised" /\ err' = st.err
    /\ UNCHANGED <<value, passes, i>>

\* line 301: lines = fix_unidiff_line_counts(lines)
FixLineCounts ==
    /\ pc = "fix_unidiff_line_counts"
    /\ LET r == fix_unidiff_line_counts(lines)
       IN  IF r.err = "none"
           THEN lines' = r.lines /\ pc' = "validate" /\ err' = err
           ELSE lines' = lines /\ pc' = "raised" /\ err' = r.err
    /\ passes' = Append(passes, "fix_unidiff_line_counts")
    /\ UNCHANGED <<value, rhvars>>

\* Validate that starts the repair again when the applier rejects the text
ValidateRetries ==
    /\ pc = "validate"
    /\ \E accepted \in BOOLEAN :
           pc' = IF accepted THEN "done" ELSE "fix"
    /\ passes' = Append(passes, "validate")
    /\ UNCHANGED <<value, lines, err, rhvars>>

\* lines 303-311: git apply --check on "\n".join(lines); the applier is
\* outside the repository and either accepts or rejects the text
Validate ==
    /\ pc = "validate"
    /\ \E accepted \in BOOLEAN :
           pc' = IF accepted THEN "done" ELSE "fallback"
    /\ passes' = Append(passes, "validate")
    /\ UNCHANGED <<value, lines, err, rhvars>>

Next ==
    \/ FixSplit
    \/ DropDiffGit
    \/ StripOldPath
    \/ RenameAB
    \/ PadEmptyLines
    \/ EnsureNewline
    \/ InsertDevNull
    \/ FixFilenames
    \/ FixMissingFiles
    \/ PrefixLoneHunks
    \/ FixRepoPaths
    \/ RHCall
    \/ RHStep
    \/ RHReturn
    \/ FixLineCounts
    \/ Validate

Spec == Init /\ [][Next]_vars

\* ------------------------------------------------------------------------
\* Vocabulary of the properties
\* ------------------------------------------------------------------------

Last(l) == l[Len(l)]

\* fix has run its three passes: lines is what fix_unidiff_line_counts returned
Repaired == pc \in {"validate", "done", "fallback"}

\* the pass that was running when fix stopped
LastPass == IF passes = <<>> THEN "none" ELSE Last(passes)

IsRemoved(line) == StartsWith(line, <<"-">>)
IsAdded(line) == StartsWith(line, <<"+">>)
IsNote(line) == StartsWith(line, <<"\\">>)

\* position k (from 1) opens a file-header triple of l
TripleAt(l, k) ==
    /\ k + 2 <= Len(l)
    /\ StartsWith(l[k], Minus3)
    /\ StartsWith(l[k + 1], Plus3)
    /\ StartsWith(l[k + 2], AtAt)

\* the position after the body of the hunk whose header is at k: the next
\* hunk header, the next file-header triple, or the final terminator line
BodyEnd(l, k) ==
    LET stops == {j \in (k + 1)..Len(l) :
                     j = Len(l) \/ StartsWith(l[j], AtAt) \/ TripleAt(l, j)}
    IN  CHOOSE j \in stops : \A q \in stops : j <= q

OldTally(body) == Len(SelectSeq(body, LAMBDA b : ~IsAdded(b) /\ ~IsNote(b)))
NewTally(body) == Len(SelectSeq(body, LAMBDA b : ~IsRemoved(b) /\ ~IsNote(b)))

\* the hunk header at k states the tallies of its own body
CountsMatch(l, k) ==
    LET body == SubSeq(l, k + 1, BodyEnd(l, k) - 1)
        m == MatchHunk(l[k])
    IN  l[k] = HunkLine(m.x, OldTally(body), m.y, NewTally(body))

\* C1: in the output of fix_unidiff_line_counts every hunk header, the last
\* of the text or not, carries old_count = Removed + Context body lines and
\* new_count = Added + Context body lines of its own hunk.
C1_CountConsistency ==
    Repaired => \A k \in 1..(Len(lines) - 1) :
                    StartsWith(lines[k], AtAt) => CountsMatch(lines, k)

\* ------------------------------------------------------------------------
\* remove_hallucinations, line by line
\* ------------------------------------------------------------------------

\* the loop of remove_hallucinations is about to process lines[i]
AtLine == pc = "rh_loop" /\ i < Len(lines)

ThisLine == lines[i + 1]

\* the line is dispatched to the branch of removed lines, or of context lines
DispatchedRemoved ==
    /\ TripleTest(StartsWith(ThisLine, Minus3), lines, i, Plus3) = "no"
    /\ ~StartsWith(ThisLine, AtAt)
    /\ ~StartsWith(ThisLine, Plus3)
    /\ IsRemoved(ThisLine)

DispatchedContext ==
    /\ ~StartsWith(ThisLine, AtAt)
    /\ ~IsRemoved(ThisLine)
    /\ ~IsAdded(ThisLine)
    /\ LStrip(ThisLine) # ThisLine

\* the hunk is of an existing file and the cursor is inside its content
CursorInFile ==
    /\ ~is_new_file
    /\ current_file_content # <<>>
    /\ 0 <= current_line_number
    /\ current_line_number < Len(current_file_content[1])

FileLineAtCursor == current_file_content[1][current_line_number + 1]

\* a removed line whose stripped content is not the file line at the cursor
HallucinatedRemoved ==
    /\ AtLine
    /\ DispatchedRemoved
    /\ CursorInFile
    /\ LStrip(DropChars(ThisLine, 1)) # LStrip(FileLineAtCursor)

\* C2 as stated: a removed line whose stripped content differs from the file
\* line at the cursor is dropped, no line is emitted for it.
C2_HallucinatedRemovedDropped ==
    [][HallucinatedRemoved => cleaned_lines' = cleaned_lines]_vars

\* C2 as the code has it: the removed line is emitted with the file line at
\* the cursor in place of its own content, the cursor moves on by one and
\* the indentation offset keeps its value.
C2_HallucinatedRemovedReplaced ==
    [][HallucinatedRemoved =>
          /\ cleaned_lines' = Append(cleaned_lines, <<"-">> \o FileLineAtCursor)
          /\ current_line_number' = current_line_number + 1
          /\ indentation_offset' = indentation_offset
          /\ pc' = "rh_loop"]_vars

C2_Witness ==
    /\ pc = "rh_loop"
    /\ branch = "removed_replaced"
    /\ lines[i] = DelZ
    /\ Last(cleaned_lines) = <<"-">> \o current_file_content[1][current_line_number]

\* the in-range positions of the window cursor-3 .. cursor+3 whose stripped
\* file line equals the stripped line
WindowMatches ==
    {p \in (current_line_number - search_range)..(current_line_number + search_range) :
        /\ 0 <= p
        /\ p < Len(current_file_content[1])
        /\ LStrip(current_file_content[1][p + 1]) = LStrip(ThisLine)}

\* the budget is positive while the line is processed: the line before it
\* was the hunk header
BudgetPositive == Max(0, first_line_semaphore - 1) > 0

\* C3: a context line processed with a positive budget that matches no file
\* line of the window is dropped silently, wherever the cursor is in the
\* file: nothing is emitted, cursor and output stay, no error, next line.
C3_UnmatchedContextDropped ==
    [][(AtLine /\ DispatchedContext /\ CursorInFile /\ BudgetPositive
            /\ WindowMatches = {}) =>
          /\ cleaned_lines' = cleaned_lines
          /\ current_line_number' = current_line_number
          /\ err' = "none"
          /\ pc' = "rh_loop"
          /\ i' = i + 1]_vars

\* a context line that is not the file line at the cursor
MismatchedContext ==
    /\ AtLine
    /\ DispatchedContext
    /\ CursorInFile
    /\ LStrip(ThisLine) # LStrip(FileLineAtCursor)

\* lines[i] is the n-th line after a hunk header, n = 1 or 2
FirstAfterHeader == i >= 1 /\ StartsWith(lines[i], AtAt)
SecondAfterHeader ==
    i >= 2 /\ StartsWith(lines[i - 1], AtAt) /\ ~StartsWith(lines[i], AtAt)

\* the step ran the bounded local search (it found the line, missed it, or
\* raised while reading the window)
Searched == branch' \in {"search_hit", "search_miss", "raise"}

\* C4 as stated: the search runs for a mismatching context line that is the
\* first line after the hunk header and also for one that is the second.
C4_SearchOnFirstTwoLines ==
    [][(MismatchedContext /\ (FirstAfterHeader \/ SecondAfterHeader)) => Searched]_vars

\* C4 as the code has it: the search runs for the first line after the hunk
\* header and for no later line; a later mismatching context line is dropped
\* with the output, the cursor and the header untouched.
C4_SearchOnFirstLineOnly ==
    [][MismatchedContext =>
          IF FirstAfterHeader THEN Searched
          ELSE /\ branch' = "context_drop"
               /\ cleaned_lines' = cleaned_lines
               /\ current_line_number' = current_line_number
               /\ pc' = "rh_loop"]_vars

\* the second line after the header had a match in the window and was dropped
C4_Witness ==
    /\ pc = "rh_loop"
    /\ branch = "context_drop"
    /\ i >= 3
    /\ StartsWith(lines[i - 2], AtAt)
    /\ lines[i - 1] = CtxA
    /\ lines[i] = CtxC
    /\ CursorInFile
    /\ \E p \in 0..(Len(current_file_content[1]) - 1) :
           /\ p - current_line_number \in (-search_range)..search_range
           /\ LStrip(current_file_content[1][p + 1]) = LStrip(lines[i])

\* ------------------------------------------------------------------------
\* The normalizer and the pipeline as a whole
\* ------------------------------------------------------------------------

\* the normalizer has completed: lines is its output
Normalized == pc = "remove_hallucinations"

\* C5: the normalizer is idempotent: run on its own output, with the same
\* tree and repository name, it completes and returns that output.
C5_NormalizerIdempotent == Normalized => Normalize(lines) = Ok(lines)

\* the path of a blob of the tree
IsBlobPath(path) ==
    \E k \in 1..Len(TreeEntries) :
        TreeEntries[k].path = path /\ TreeEntries[k].type = "blob"

IsBodyLine(line) ==
    /\ line # <<>>
    /\ line[1] \in {" ", "-", "+"}
    /\ ~StartsWith(line, Minus3)
    /\ ~StartsWith(line, Plus3)

\* the section of t that the file-header triple at k opens applies cleanly:
\* both path lines name the same blob, the removed and context lines are the
\* file lines from old_start on, and the header states the body's tallies
CleanSection(t, k) ==
    LET path == PathOf(t[k])
        m == MatchHunk(t[k + 2])
        body == SubSeq(t, k + 3, BodyEnd(t, k + 2) - 1)
        olds == SelectSeq(body, LAMBDA b : ~IsAdded(b))
        file == BlobLines(path)
    IN  /\ MatchPath(Minus3Sp, t[k])
        /\ IsBlobPath(path)
        /\ t[k + 1] = Plus3Sp \o path
        /\ m.ok
        /\ m.x >= 1
        /\ \A q \in 1..Len(body) : IsBodyLine(body[q])
        /\ m.x + Len(olds) - 1 <= Len(file)
        /\ \A q \in 1..Len(olds) : DropChars(olds[q], 1) = file[m.x + q - 1]
        /\ t[k + 2] = HunkLine(m.x, OldTally(body), m.y, NewTally(body))

\* a newline-terminated diff made of sections that apply cleanly, every hunk
\* under path lines of its own
CleanDiff(t) ==
    /\ Len(t) >= 4
    /\ Last(t) = Empty
    /\ TripleAt(t, 1)
    /\ \A k \in 1..(Len(t) - 1) :
           /\ TripleAt(t, k) => CleanSection(t, k)
           /\ StartsWith(t[k], AtAt) => k >= 3 /\ TripleAt(t, k - 2)

\* the number of hunks of a text
Hunks(t) == Cardinality({k \in 1..Len(t) : StartsWith(t[k], AtAt)})

\* C6: a diff that already applies cleanly, of one hunk or of several, comes
\* out of normalizer, remove_hallucinations and fix_unidiff_line_counts as
\* the line sequence that went in.
C6_CleanDiffUnchanged ==
    (CleanDiff(value) /\ pc \in {"raised", "validate", "done", "fallback"})
        => (Repaired /\ JoinLines(lines) = value)

\* C7 as stated: whenever the pipeline completes, its output ends with
\* exactly one empty line: the last element is empty and the one before it
\* is not.
C7_ExactlyOneTrailingEmpty ==
    Repaired => /\ Last(lines) = Empty
                /\ Len(lines) >= 2 => lines[Len(lines) - 1] # Empty

\* an empty line of l that rule 4 leaves empty because a --- line follows it
KeptBlank(l) ==
    \E k \in 1..(Len(l) - 1) : l[k] = Empty /\ StartsWith(l[k + 1], Minus3)

\* C7 as the code has it: the output ends with an empty line, and the line
\* before it is empty only when the normalized text holds an empty line
\* directly before a line starting with "---" (rule 4 keeps it empty, and
\* remove_hallucinations may drop every line after it).
C7_TrailingEmpty ==
    Repaired => /\ Last(lines) = Empty
                /\ (Len(lines) >= 2 /\ lines[Len(lines) - 1] = Empty)
                       => KeptBlank(Normalize(SplitLines(value)).lines)

\* lines just before the terminator were dropped and one empty line ends
\* the output
C7_Witness ==
    /\ Repaired
    /\ Len(lines) < Len(Normalize(SplitLines(value)).lines)
    /\ branch = "end"
    /\ Last(lines) = Empty
    /\ Len(lines) >= 2
    /\ lines[Len(lines) - 1] # Empty
    /\ Last(SplitLines(value)) = CtxZ

PassOrder ==
    <<"normalizer", "remove_hallucinations", "fix_unidiff_line_counts", "validate">>

IsPrefix(p, q) == Len(p) <= Len(q) /\ SubSeq(q, 1, Len(p)) = p

C9_NormalizerTotal == ~(pc = "raised" /\ LastPass = "normalizer")

\* C10: a line starting with "@@" that is no numeric hunk header does not
\* stop remove_hallucinations or fix_unidiff_line_counts: no exception
\* leaves the pipeline at such a line.
C10_MalformedHeaderConfined ==
    ~(/\ pc = "raised"
      /\ LastPass = "remove_hallucinations"
      /\ i < Len(lines)
      /\ StartsWith(lines[i + 1], AtAt)
      /\ ~MatchHunk(lines[i + 1]).ok)

\* ------------------------------------------------------------------------
\* The rewrites of the normalizer, one by one
\* ------------------------------------------------------------------------

RepoOnce == RepoName \o <<"/">>
RepoTwice == RepoOnce \o RepoOnce

\* the line with the repository segment that follows prefix written twice
Duplicated(prefix, line) ==
    IF StartsWith(line, prefix \o RepoOnce)
    THEN prefix \o RepoTwice \o DropChars(line, Len(prefix) + Len(RepoOnce))
    ELSE line

\* the file-header triple at k has a new path under the repository-named
\* directory
UnderRepoDir(l, k) == TripleAt(l, k) /\ StartsWith(l[k + 1], Plus3Sp \o RepoOnce)

\* C11: rule 10, the tree holding an entry named like the repository: in a
\* file-header triple whose new path starts with "<repo>/" the segment is
\* duplicated in both path lines unless the path already starts with
\* "<repo>/<repo>/", and then both path lines stay as they are.
C11_RepoSegmentDuplicatedOnce ==
    [][(pc = "rule10" /\ InTree(RepoName) /\ pc' # "raised") =>
          /\ Len(lines') = Len(lines)
          /\ \A k \in 1..Len(lines) :
                 UnderRepoDir(lines, k) =>
                     IF StartsWith(lines[k + 1], Plus3Sp \o RepoTwice)
                     THEN lines'[k] = lines[k] /\ lines'[k + 1] = lines[k + 1]
                     ELSE /\ lines'[k] = Duplicated(Minus3Sp, lines[k])
                          /\ lines'[k + 1] = Duplicated(Plus3Sp, lines[k + 1])]_vars

\* a hunk header of the wire format "@@ -a,b +c,d @@", an old path line and
\* a new path line, as rules 6 and 9 tell them
IsHunkHeader(line) == StartsWith(line, AtAtSp)
IsOldPath(line) == StartsWith(line, Minus3)
IsNewPath(line) == StartsWith(line, Plus3Sp)

\* the hunk headers of l that no new path line precedes
Orphans(l) ==
    {j \in 1..Len(l) : IsHunkHeader(l[j]) /\ ~(j >= 2 /\ IsNewPath(l[j - 1]))}

\* where line j of l stands once a pair is put before every orphan
Reattached(l, j) == j + 2 * Cardinality({q \in Orphans(l) : q <= j})

\* the file-header triple of l nearest before j, 0 when there is none
NearestTriple(l, j) ==
    LET before == {t \in 1..(j - 1) : TripleAt(l, t)}
    IN  IF before = {} THEN 0 ELSE CHOOSE t \in before : \A q \in before : q <= t

\* every hunk header stands under a new path line under an old path line
HeadersComplete(l) ==
    \A k \in 1..Len(l) :
        IsHunkHeader(l[k]) => /\ k >= 3
                              /\ IsNewPath(l[k - 1])
                              /\ IsOldPath(l[k - 2])

\* rule 9 put, before every orphan of l, the path lines of the nearest
\* triple before it, and moved no other line out of its order
PairsReattached(l, out) ==
    /\ Len(out) = Len(l) + 2 * Cardinality(Orphans(l))
    /\ \A j \in 1..Len(l) : out[Reattached(l, j)] = l[j]
    /\ \A j \in Orphans(l) :
           LET t == NearestTriple(l, j)
           IN  /\ t # 0
               /\ out[Reattached(l, j) - 2] = l[t]
               /\ out[Reattached(l, j) - 1] = l[t + 1]

\* C12: in the output of the normalizer every hunk header is directly under
\* a new path line that is directly under an old path line; rule 9 puts
\* before each hunk header that had no new path line the path lines of the
\* nearest file-header triple before it, and the insertions of one text do
\* not shift each other.
C12_HunksReattached ==
    /\ [](Normalized => HeadersComplete(lines))
    /\ [][(pc = "rule9" /\ pc' = "rule10") => PairsReattached(lines, lines')]_vars

\* rule 9 has put the path lines of the first hunk before two later hunks
C12_Witness ==
    /\ pc = "rule10"
    /\ Cardinality({k \in 1..Len(value) : value[k] = OldF}) = 1
    /\ Cardinality({k \in 1..Len(lines) : lines[k] = OldF}) = 3
    /\ HeadersComplete(lines)

\* the old path line carries the sentinel, as rule 7 tells it
IsSentinelOld(line) == StartsWith(line, OldDevNull)

\* the tree paths that end with filename
PathsEndingWith(filename) ==
    {TreeEntries[e].path : e \in {q \in 1..Len(TreeEntries) :
                                     EndsWith(TreeEntries[q].path, filename)}}

\* what rule 8 makes of the file-header triple at k of l
TripleResolved(l, out, k) ==
    LET filename == PathOf(l[k + 1])
    IN  IF InTree(filename)
        THEN out[k] = l[k] /\ out[k + 1] = l[k + 1]
        ELSE IF PathsEndingWith(filename) # {}
        THEN \E path \in PathsEndingWith(filename) :
                 out[k] = Minus3Sp \o path /\ out[k + 1] = Plus3Sp \o path
        ELSE out[k] = OldDevNull /\ out[k + 1] = l[k + 1]

\* every old path of a triple is the sentinel or a path of the tree
OldPathsKnown(l) ==
    \A k \in 1..Len(l) :
        TripleAt(l, k) => (IsSentinelOld(l[k]) \/ InTree(PathOf(l[k])))

\* C13: rule 8 leaves a triple whose filename is in the tree as it is;
\* it rewrites both path lines of a triple whose filename is not in the tree
\* to a tree path that ends with the filename, and when there is no such
\* path it makes the old path line "--- /dev/null" and keeps the new path
\* line; after rule 8 every old path is the sentinel or a path of the tree.
C13_MissingFilesResolved ==
    [][(pc = "rule8" /\ pc' = "rule9") =>
          /\ Len(lines') = Len(lines)
          /\ \A k \in 1..Len(lines) :
                 TripleAt(lines, k) => TripleResolved(lines, lines', k)
          /\ OldPathsKnown(lines')]_vars

\* rule 8 has rewritten the path r/g, which is not in the tree, to r/r/g
C13_Witness ==
    /\ pc = "rule9"
    /\ value[1] = OldRG
    /\ TripleAt(lines, 1)
    /\ lines[1] = OldRRG
    /\ lines[2] = NewRRG

\* ------------------------------------------------------------------------
\* remove_hallucinations: the cursor, the search and the indentation
\* ------------------------------------------------------------------------

\* the line about to be processed opens a file-header triple
DispatchedHeader ==
    TripleTest(StartsWith(ThisLine, Minus3), lines, i, Plus3) = "yes"

\* the line about to be processed lies inside a hunk: it is neither a hunk
\* header nor the old path line of a triple, which end the hunk before them
InsideHunk == AtLine /\ ~DispatchedHeader /\ ~StartsWith(ThisLine, AtAt)

\* C14: within a hunk the cursor never decreases from one processed line to
\* the next except on a step where the bounded local search succeeds, and
\* such a step happens only on the first or the second line after the hunk
\* header.
C14_CursorMonotonic ==
    [][InsideHunk =>
          /\ (current_line_number' >= current_line_number \/ branch' = "search_hit")
          /\ (branch' = "search_hit" => (FirstAfterHeader \/ SecondAfterHeader))]_vars

\* the search has moved the cursor back: the header said line 3, the first
\* line of the hunk was found before it
C14_Witness ==
    /\ pc = "rh_loop"
    /\ branch = "search_hit"
    /\ i >= 2
    /\ MatchHunk(lines[i - 1]).ok
    /\ current_line_number < MatchHunk(lines[i - 1]).x - 1

\* the lowest position of the window whose stripped file line is the
\* stripped line
FirstWindowMatch == CHOOSE p \in WindowMatches : \A q \in WindowMatches : p <= q

\* the step that processes this line ends in a successful search
SearchSucceeds == AtLine /\ branch' = "search_hit"

\* C15: a successful search succeeds at the lowest in-range position p of
\* the window cursor-3 .. cursor+3 whose stripped file line is the stripped
\* line; the output line it overwrites is the header of the current hunk,
\* never a body line; old start and new start of that header become p+1;
\* one context line, a space and the file line at p, is emitted; the cursor
\* becomes p+1.
C15_SearchRealigns ==
    [][SearchSucceeds =>
          /\ DispatchedContext
          /\ ~is_new_file
          /\ current_file_content # <<>>
          /\ WindowMatches # {}
          /\ cleaned_lines # <<>>
          /\ StartsWith(Last(cleaned_lines), AtAt)
          /\ i >= 1
          /\ Last(cleaned_lines) = lines[i]
          /\ Len(cleaned_lines') = Len(cleaned_lines) + 1
          /\ SubSeq(cleaned_lines', 1, Len(cleaned_lines) - 1)
                 = SubSeq(cleaned_lines, 1, Len(cleaned_lines) - 1)
          /\ LET p == FirstWindowMatch
                 header == cleaned_lines'[Len(cleaned_lines)]
             IN  /\ MatchHunk(header).ok
                 /\ MatchHunk(header).x = p + 1
                 /\ MatchHunk(header).y = p + 1
                 /\ Last(cleaned_lines') = <<" ">> \o current_file_content[1][p + 1]
                 /\ current_line_number' = p + 1]_vars

\* the header said line 2 of h, whose lines 1 and 3 both are the line: the
\* search took line 1 and rewrote the header
C15_Witness ==
    /\ pc = "rh_loop"
    /\ branch = "search_hit"
    /\ i >= 2
    /\ lines[i - 1] = Hunk2
    /\ lines[i] = CtxC
    /\ current_file_content = <<FileH>>
    /\ Len(cleaned_lines) >= 2
    /\ cleaned_lines[Len(cleaned_lines) - 1] = Hunk1
    /\ Last(cleaned_lines) = CtxC
    /\ current_line_number = 1

\* the line is dispatched to the branch of added lines
DispatchedAdded ==
    /\ ~StartsWith(ThisLine, AtAt)
    /\ ~StartsWith(ThisLine, Plus3)
    /\ IsAdded(ThisLine)

Min(a, b) == IF a <= b THEN a ELSE b

\* a line content moved by an indentation offset: offset spaces put before
\* it, or leading whitespace taken from it, and nothing but whitespace
Reindented(content, offset) ==
    IF offset >= 0 THEN Spaces(offset) \o content
    ELSE DropChars(content, Min(-offset, Indentation(content)))

\* a removed line that differs from the file line at the cursor in leading
\* whitespace only
MisindentedRemoved ==
    /\ AtLine
    /\ DispatchedRemoved
    /\ CursorInFile
    /\ DropChars(ThisLine, 1) # FileLineAtCursor
    /\ LStrip(DropChars(ThisLine, 1)) = LStrip(FileLineAtCursor)

\* a context line that is the file line at the cursor, up to whitespace
MatchingContext ==
    /\ AtLine
    /\ DispatchedContext
    /\ CursorInFile
    /\ LStrip(ThisLine) = LStrip(FileLineAtCursor)

\* C16: a removed line that differs from the file line at the cursor only
\* in leading whitespace sets indentation_offset to file indentation minus
\* generated indentation; every added line and every matching context line
\* after it in the hunk is emitted with the offset applied (that many
\* spaces put before it, or only leading whitespace taken away); the offset
\* stays until a hunk header sets it to 0; an added line is never dropped
\* and never moves the cursor.
C16_IndentationInherited ==
    [][AtLine =>
          /\ MisindentedRemoved =>
                 indentation_offset' = Indentation(FileLineAtCursor)
                                          - Indentation(DropChars(ThisLine, 1))
          /\ (InsideHunk /\ DispatchedAdded) =>
                 /\ cleaned_lines' = Append(cleaned_lines,
                        <<"+">> \o Reindented(DropChars(ThisLine, 1), indentation_offset))
                 /\ current_line_number' = current_line_number
                 /\ indentation_offset' = indentation_offset
          /\ (InsideHunk /\ MatchingContext /\ indentation_offset # 0) =>
                 /\ cleaned_lines' = Append(cleaned_lines,
                        <<" ">> \o Reindented(DropChars(ThisLine, 1), indentation_offset))
                 /\ indentation_offset' = indentation_offset
          /\ (StartsWith(ThisLine, AtAt) /\ pc' = "rh_loop") => indentation_offset' = 0]_vars

\* the path lines of the triple at k of l name the same file
SameFile(l, k) ==
    /\ MatchPath(Minus3Sp, l[k])
    /\ MatchPath(Plus3Sp, l[k + 1])
    /\ PathOf(l[k + 1]) = PathOf(l[k])

\* C17: in the output of the normalizer, all ten rules done, every
\* file-header triple whose old path is not the sentinel has on its new
\* path line the filename of its old path line.
C17_SameFileInTriple ==
    Normalized => \A k \in 1..Len(lines) :
                      (TripleAt(lines, k) /\ ~IsSentinelOld(lines[k])) => SameFile(lines, k)

\* the diff named n on the new path line of a triple of f
C17_Witness ==
    /\ Normalized
    /\ Len(value) >= 3
    /\ value[1] = IndentedOldF
    /\ value[2] = NewN
    /\ TripleAt(lines, 1)
    /\ lines[1] = OldF
    /\ lines[2] = NewF

\* the position of the last hunk header of cl, 0 when it has none
LastHeader(cl) ==
    LET hs == {k \in 1..Len(cl) : StartsWith(cl[k], AtAt)}
    IN  IF hs = {} THEN 0 ELSE CHOOSE k \in hs : \A q \in hs : q <= k

\* the body emitted so far for the hunk that is being processed
BodySoFar(cl) == SubSeq(cl, LastHeader(cl) + 1, Len(cl))

IsContext(line) == StartsWith(line, <<" ">>)

\* the removed and context lines of a body, in order
OldLines(body) == SelectSeq(body, LAMBDA b : IsRemoved(b) \/ IsContext(b))

\* no line of the body is unclassified
Classified(body) ==
    \A q \in 1..Len(body) : IsRemoved(body[q]) \/ IsAdded(body[q]) \/ IsContext(body[q])

\* the step emits a removed or a context line
EmitsOldLine ==
    branch' \in {"removed", "removed_replaced", "removed_reindent", "context", "search_hit"}

\* C18: in a hunk of an existing file with no unclassified line and with
\* indentation_offset 0 throughout, the removed and context lines that
\* remove_hallucinations emits are, in order, the file lines at the
\* indices old_start-1, old_start, old_start+1, ... of the file, old_start
\* being the start in the emitted hunk header: the n-th of them is the file
\* line at index old_start-1+(n-1), which is an index of the file.
C18_HunkFollowsFile ==
    [][(/\ AtLine
        /\ InsideHunk
        /\ EmitsOldLine
        /\ ~is_new_file
        /\ current_file_content # <<>>
        /\ indentation_offset = 0
        /\ indentation_offset' = 0
        /\ LastHeader(cleaned_lines) # 0
        /\ Classified(BodySoFar(cleaned_lines))) =>
          LET header == cleaned_lines'[LastHeader(cleaned_lines')]
              index == MatchHunk(header).x - 1 + Len(OldLines(BodySoFar(cleaned_lines)))
              file == current_file_content[1]
          IN  /\ 0 <= index
              /\ index < Len(file)
              /\ DropChars(Last(cleaned_lines'), 1) = file[index + 1]]_vars

====
